---- MODULE Spec2Model ----
(***************************************************************************)
(* A model of src/app.py, the triathlon race visualiser: the duration      *)
(* parser time_to_seconds, the table transform process_data, the figure    *)
(* builder create_figure and the two Dash callbacks.                       *)
(*                                                                         *)
(* Text is a sequence of one-character strings, so that str.split(':')     *)
(* and int() are computed and not assumed.  A value of a time column is a  *)
(* record [k, v]: k = "int" with the seconds in v, k = "nan" for numpy's   *)
(* NaN, and k = "ValueError" / "AttributeError" / "KeyError" when the      *)
(* evaluation raised that exception.                                       *)
(***************************************************************************)
EXTENDS Integers, Sequences, FiniteSets, TLC

VARIABLES
    input,          \* SpecParse: the argument handed to time_to_seconds
    result,         \* SpecParse: what time_to_seconds returned or raised
    contents,       \* upload-data.contents (the uploaded file, or none)
    filename,       \* upload-data.filename
    mode,           \* calculation-mode.value
    hoverData,      \* race-plot.hoverData: the hovered trace's name
    figure,         \* race-plot.figure
    style,          \* race-plot.style: "none" or "block"
    buttonDisabled, \* visualize-button.disabled
    uploadMessage,  \* output-data-upload.children
    df,             \* the DataFrame of the last update_graph, as it left it
    trig,           \* callback_context.triggered[0] of the last update_graph
    outcome,        \* how the last update_graph ended: "returned" or "raised"
    parsed          \* whether the last update_graph called process_data

vars == <<input, result, contents, filename, mode, hoverData, figure, style,
          buttonDisabled, uploadMessage, df, trig, outcome, parsed>>

appVars == <<contents, filename, mode, hoverData, figure, style,
             buttonDisabled, uploadMessage, df, trig, outcome, parsed>>

(***************************************************************************)
(* Bounds of the inputs.                                                   *)
(***************************************************************************)
MaxParts == 4       \* colon-separated parts of a parsed string
MaxPartLen == 2     \* characters of one part
MaxAthletes == 3    \* rows of an uploaded table
MaxSec == 1         \* largest seconds field of a single-row table

(***************************************************************************)
(* Values.                                                                 *)
(***************************************************************************)
\* A list or a column as a tuple of its elements.
List(f) == f \o <<>>

NaN == [k |-> "nan", v |-> 0]
IntVal(n) == [k |-> "int", v |-> n]
Raised(e) == [k |-> e, v |-> 0]
IsNaN(x) == x.k = "nan"
IsInt(x) == x.k = "int"
Pending == [k |-> "pending", v |-> 0]
IsRaised(x) == x.k \in {"ValueError", "AttributeError", "KeyError"}

\* A cell as read_csv hands it to time_to_seconds: missing (NaN), a str, or
\* a number (a column whose fields are all numeric is inferred int64/float64).
MissingCell == [kind |-> "nan", s |-> <<>>]
StrCell(s) == [kind |-> "str", s |-> s]
NumCell(s) == [kind |-> "num", s |-> s]

(***************************************************************************)
(* Text: str.split(':') and int().                                         *)
(***************************************************************************)
Digits == <<"0", "1", "2", "3", "4", "5", "6", "7", "8", "9">>
IsDigit(c) == \E i \in 1..Len(Digits) : Digits[i] = c
DigitVal(c) == (CHOOSE i \in 1..Len(Digits) : Digits[i] = c) - 1

ZeroStamp == <<"0", "0", ":", "0", "0", ":", "0", "0">>

RECURSIVE Split(_)
\* time_str.split(':'): the text between the colons; "" splits into [""].
Split(s) ==
    IF \A i \in 1..Len(s) : s[i] # ":"
    THEN <<s>>
    ELSE LET i == CHOOSE j \in 1..Len(s) :
                      s[j] = ":" /\ \A h \in 1..(j - 1) : s[h] # ":"
         IN  <<SubSeq(s, 1, i - 1)>> \o Split(SubSeq(s, i + 1, Len(s)))

RECURSIVE Join(_)
\* ':'.join(parts), the inverse of Split on colon-free parts.
Join(parts) ==
    IF Len(parts) = 1 THEN parts[1]
    ELSE parts[1] \o <<":">> \o Join(Tail(parts))

RECURSIVE DigitsValue(_)
DigitsValue(ds) ==
    IF ds = <<>> THEN 0
    ELSE 10 * DigitsValue(SubSeq(ds, 1, Len(ds) - 1)) + DigitVal(ds[Len(ds)])

Unsigned(p) == IF p # <<>> /\ p[1] \in {"-", "+"} THEN Tail(p) ELSE p

\* int(p) accepts an optional sign followed by at least one decimal digit.
IntOk(p) == Unsigned(p) # <<>> /\ \A i \in 1..Len(Unsigned(p)) : IsDigit(Unsigned(p)[i])

\* int(p): the integer, or ValueError.
PyInt(p) ==
    IF ~IntOk(p) THEN Raised("ValueError")
    ELSE IF p[1] = "-" THEN IntVal(0 - DigitsValue(Unsigned(p)))
    ELSE IntVal(DigitsValue(Unsigned(p)))

\* a * x + b * y + c * z over int() results: the first exception wins.
Weighted(xs, ws) ==
    IF \E i \in 1..Len(xs) : IsRaised(xs[i])
    THEN xs[CHOOSE i \in 1..Len(xs) :
                IsRaised(xs[i]) /\ \A h \in 1..(i - 1) : ~IsRaised(xs[h])]
    ELSE LET RECURSIVE Sum(_)
             Sum(i) == IF i = 0 THEN 0 ELSE Sum(i - 1) + ws[i] * xs[i].v
         IN  IntVal(Sum(Len(xs)))

time_to_seconds(time_str) ==
    IF time_str.kind = "nan" \/ (time_str.kind = "str" /\ time_str.s = ZeroStamp)
    THEN NaN
    ELSE IF time_str.kind = "num"
    THEN Raised("AttributeError")            \* a number has no split
    ELSE LET parts == Split(time_str.s) IN
         IF Len(parts) = 3
         THEN Weighted(<<PyInt(parts[1]), PyInt(parts[2]), PyInt(parts[3])>>,
                       <<3600, 60, 1>>)
         ELSE IF Len(parts) = 2
         THEN Weighted(<<PyInt(parts[1]), PyInt(parts[2])>>, <<60, 1>>)
         ELSE PyInt(parts[1])

(***************************************************************************)
(* Uploaded files.  A file is [present, decodable, columns, rows]:         *)
(* decodable is FALSE when decoding the bytes or pd.read_csv raises,       *)
(* columns is FALSE when a time column is missing from the header.  A row  *)
(* is [name, position, cells]: cells are the raw fields of Swim, T1, Bike, *)
(* T2, Run and Total Time.                                                 *)
(***************************************************************************)
segments == <<"Swim", "T1", "Bike", "T2", "Run">>
time_columns == <<"Swim", "T1", "Bike", "T2", "Run", "Total Time">>
x_values == <<0, 5, 6, 20, 21, 30>>      \* tenths: 0, 0.5, 0.6, 2.0, 2.1, 3.0

NoFile == [present |-> FALSE, decodable |-> FALSE, columns |-> FALSE, rows |-> <<>>]
CsvFile(rows) == [present |-> TRUE, decodable |-> TRUE, columns |-> TRUE, rows |-> rows]

\* 'csv' in filename: a substring test.
Contains(sub, s) ==
    \E i \in 1..(Len(s) - Len(sub) + 1) : SubSeq(s, i, i + Len(sub) - 1) = sub

\* pd.read_csv on one time column: an empty field is NaN; when every other
\* field of the column is a number the column is numeric, otherwise the
\* fields stay str.
ReadCsvCell(rows, i, c) ==
    LET numeric == \A r \in 1..Len(rows) :
                       rows[r].cells[c] = <<>> \/ IntOk(rows[r].cells[c])
        text == rows[i].cells[c]
    IN  IF text = <<>> THEN MissingCell
        ELSE IF numeric THEN NumCell(text)
        ELSE StrCell(text)

\* Add with the missing side filled with 0 (a fillna(0) before the sum).
AddZeroFill(a, b) ==
    IF IsNaN(a) /\ IsNaN(b) THEN NaN
    ELSE IntVal((IF IsNaN(a) THEN 0 ELSE a.v) + (IF IsNaN(b) THEN 0 ELSE b.v))

\* a + b on float64 columns: NaN when either side is NaN.
Add(a, b) == IF IsNaN(a) \/ IsNaN(b) THEN NaN ELSE IntVal(a.v + b.v)

RECURSIVE Cumulative(_, _)
\* Swim_Cum = Swim; <seg i>_Cum = <seg i-1>_Cum + <seg i>.
Cumulative(dur, i) ==
    IF i = 1 THEN dur[1] ELSE Add(Cumulative(dur, i - 1), dur[i])

process_data(file, fname) ==
    IF ~Contains(<<"c", "s", "v">>, fname)
    THEN [status |-> "error", message |-> "Unsupported file type. Please upload a CSV file.",
          df |-> <<>>]
    ELSE IF ~file.decodable
    THEN [status |-> "error", message |-> "str(e)", df |-> <<>>]
    ELSE IF ~file.columns
    THEN [status |-> "KeyError", message |-> "", df |-> <<>>]
    ELSE LET rows == file.rows
             conv == List([i \in 1..Len(rows) |->
                        List([c \in 1..Len(time_columns) |->
                            time_to_seconds(ReadCsvCell(rows, i, c))])])
             bad == {<<c, i>> \in (1..Len(time_columns)) \X (1..Len(rows)) :
                        IsRaised(conv[i][c])}
             first == CHOOSE b \in bad : \A o \in bad :
                          b[1] < o[1] \/ (b[1] = o[1] /\ b[2] <= o[2])
         IN  IF bad # {}
             THEN [status |-> conv[first[2]][first[1]].k, message |-> "", df |-> <<>>]
             ELSE [status |-> "ok", message |-> "",
                   df |-> List([i \in 1..Len(rows) |->
                      [name |-> rows[i].name,
                       position |-> rows[i].position,
                       dur |-> SubSeq(conv[i], 1, Len(segments)),
                       total |-> conv[i][Len(time_columns)],
                       cum |-> List([j \in 1..Len(segments) |->
                                   Cumulative(conv[i], j)]),
                       rank |-> <<>>, gap |-> <<>>]])]

(***************************************************************************)
(* create_figure.                                                          *)
(***************************************************************************)
\* go.Figure()
EmptyFigure ==
    [traces |-> <<>>, title |-> <<>>, ytitle |-> "", autorange |-> "", yrange |-> <<>>]

Column(d, j) == List([i \in 1..Len(d) |-> d[i].cum[j]])
Present(col) == {i \in 1..Len(col) : ~IsNaN(col[i])}

\* Rank with method='dense': one more than the number of distinct smaller values.
RankDense(col, i) ==
    IF IsNaN(col[i])
    THEN IntVal(1 + Cardinality({col[j].v : j \in Present(col)}))
    ELSE IntVal(1 + Cardinality({col[j].v : j \in {h \in Present(col) : col[h].v < col[i].v}}))

\* df[split].rank(method='min', na_option='bottom'): one more than the number
\* of strictly smaller values, NaN counting as larger than every value.
Rank(col, i) ==
    IF IsNaN(col[i])
    THEN IntVal(1 + Cardinality(Present(col)))
    ELSE IntVal(1 + Cardinality({j \in Present(col) : col[j].v < col[i].v}))

\* LeaderTime with max() in place of min().
LeaderTimeMax(col) ==
    IF Present(col) = {} THEN NaN
    ELSE col[CHOOSE i \in Present(col) : \A j \in Present(col) : col[i].v >= col[j].v]

\* df[split].min(): NaN is skipped; NaN when no value is present.
LeaderTime(col) ==
    IF Present(col) = {} THEN NaN
    ELSE col[CHOOSE i \in Present(col) : \A j \in Present(col) : col[i].v <= col[j].v]

\* df[split] - leader_time
Gap(col, i) ==
    IF IsNaN(col[i]) \/ IsNaN(LeaderTime(col)) THEN NaN
    ELSE IntVal(col[i].v - LeaderTime(col).v)

\* DataFrame.max().max() over the derived columns: NaN is skipped.
MaxOf(d, field) ==
    LET all == {d[i][field][j] : i \in 1..Len(d), j \in 1..Len(segments)}
        vals == {x \in all : ~IsNaN(x)}
    IN  IF vals = {} THEN NaN
        ELSE CHOOSE x \in vals : \A y \in vals : y.v <= x.v

\* The <seg>_Cum_Rank or <seg>_Cum_Gap columns create_figure adds to df.
WithView(d, calculation_mode) ==
    List([i \in 1..Len(d) |->
        [d[i] EXCEPT
            !.rank = IF calculation_mode = "position"
                     THEN List([j \in 1..Len(segments) |-> Rank(Column(d, j), i)])
                     ELSE <<>>,
            !.gap = IF calculation_mode = "position" THEN <<>>
                    ELSE List([j \in 1..Len(segments) |-> Gap(Column(d, j), i)])]])

RECURSIVE RunFinishers(_)
\* df[df['Run_Cum'].notna()]: the rows with a cumulative Run value, in order.
RunFinishers(d) ==
    IF d = <<>> THEN <<>>
    ELSE (IF ~IsNaN(Head(d).cum[Len(segments)]) THEN <<Head(d)>> ELSE <<>>)
             \o RunFinishers(Tail(d))

\* df.sort_values('Position', na_position='last')
sort_values(d) ==
    LET Before(a, b) ==
            \/ ~IsNaN(d[a].position) /\ IsNaN(d[b].position)
            \/ ~IsNaN(d[a].position) /\ ~IsNaN(d[b].position)
                  /\ d[a].position.v < d[b].position.v
            \/ d[a].position = d[b].position /\ a < b
    IN  List([k \in 1..Len(d) |->
            d[CHOOSE i \in 1..Len(d) :
                  Cardinality({j \in 1..Len(d) : Before(j, i)}) = k - 1]])

\* opacity = 1 if hovered_athlete == name else 0.2 if hovered_athlete else 0.6
Opacity(hovered_athlete, name) ==
    IF hovered_athlete = name THEN "1"
    ELSE IF hovered_athlete # "None" THEN "0.2"
    ELSE "0.6"

\* The loop over segments: one point per segment up to the first NaN value.
Reached(values) ==
    IF \A j \in 1..Len(values) : ~IsNaN(values[j]) THEN Len(values)
    ELSE (CHOOSE j \in 1..Len(values) :
              IsNaN(values[j]) /\ \A h \in 1..(j - 1) : ~IsNaN(values[h])) - 1

Trace(athlete, calculation_mode, max_rank, hovered_athlete) ==
    LET values == IF calculation_mode = "position" THEN athlete.rank ELSE athlete.gap
        n == Reached(values)
        y_values == <<0>> \o List([j \in 1..n |-> values[j].v])
        athlete_x_values == SubSeq(x_values, 1, n + 1)
        pad == calculation_mode = "position" /\ Len(y_values) < Len(segments) + 1
    IN  [name |-> athlete.name,
         x |-> IF pad THEN Append(athlete_x_values, athlete_x_values[n + 1])
               ELSE athlete_x_values,
         y |-> IF pad THEN Append(y_values, max_rank.v) ELSE y_values,
         opacity |-> Opacity(hovered_athlete, athlete.name)]

create_figure(d, calculation_mode, fname, hovered_athlete) ==
    LET derived == WithView(d, calculation_mode)
        max_rank == IF calculation_mode = "position" THEN MaxOf(derived, "rank") ELSE NaN
        max_gap == IF calculation_mode = "position" THEN NaN ELSE MaxOf(derived, "gap")
        shown == sort_values(IF calculation_mode = "position" THEN derived
                             ELSE RunFinishers(derived))
    IN  [df |-> derived,
         figure |->
           [traces |-> List([i \in 1..Len(shown) |->
                        Trace(shown[i], calculation_mode, max_rank, hovered_athlete)]),
            title |-> fname,
            ytitle |-> IF calculation_mode = "position" THEN "Rank"
                       ELSE "Time Gap to Leader (seconds)",
            autorange |-> IF calculation_mode = "position" THEN "reversed" ELSE "True",
            yrange |-> IF calculation_mode = "position" THEN <<>>
                       ELSE <<max_gap, IntVal(0)>>]]

(***************************************************************************)
(* The callbacks.                                                          *)
(***************************************************************************)
\* update_graph with the mode selection rendering like the Visualize click.
UpdateGraphRerender(triggered_id, calculation_mode, hover, cts, fname) ==
    IF ~cts.present \/ calculation_mode = "None"
    THEN [outcome |-> "returned", parsed |-> FALSE, df |-> <<>>,
          figure |-> EmptyFigure, style |-> "none"]
    ELSE LET p == process_data(cts, fname) IN
         IF p.status \notin {"ok", "error"}
         THEN [outcome |-> "raised", parsed |-> TRUE, df |-> <<>>,
               figure |-> EmptyFigure, style |-> "none"]
         ELSE IF p.status = "error"
         THEN [outcome |-> "returned", parsed |-> TRUE, df |-> <<>>,
               figure |-> EmptyFigure, style |-> "none"]
         ELSE IF triggered_id \in {"visualize-button", "calculation-mode"}
         THEN LET f == create_figure(p.df, calculation_mode, fname, "None") IN
              [outcome |-> "returned", parsed |-> TRUE, df |-> f.df,
               figure |-> f.figure, style |-> "block"]
         ELSE IF triggered_id = "race-plot" /\ hover # "None"
         THEN LET f == create_figure(p.df, calculation_mode, fname, hover) IN
              [outcome |-> "returned", parsed |-> TRUE, df |-> f.df,
               figure |-> f.figure, style |-> "block"]
         ELSE [outcome |-> "returned", parsed |-> TRUE, df |-> p.df,
               figure |-> EmptyFigure, style |-> "none"]

\* What update_graph computes: how it ended, whether it called process_data,
\* the table it got, and the outputs it returned.
UpdateGraphResult(triggered_id, calculation_mode, hover, cts, fname) ==
    IF ~cts.present \/ calculation_mode = "None"
    THEN [outcome |-> "returned", parsed |-> FALSE, df |-> <<>>,
          figure |-> EmptyFigure, style |-> "none"]
    ELSE LET p == process_data(cts, fname) IN
         IF p.status \notin {"ok", "error"}
         THEN [outcome |-> "raised", parsed |-> TRUE, df |-> <<>>,
               figure |-> EmptyFigure, style |-> "none"]
         ELSE IF p.status = "error"
         THEN [outcome |-> "returned", parsed |-> TRUE, df |-> <<>>,
               figure |-> EmptyFigure, style |-> "none"]
         ELSE IF triggered_id = "visualize-button"
         THEN LET f == create_figure(p.df, calculation_mode, fname, "None") IN
              [outcome |-> "returned", parsed |-> TRUE, df |-> f.df,
               figure |-> f.figure, style |-> "block"]
         ELSE IF triggered_id = "race-plot" /\ hover # "None"
         THEN LET f == create_figure(p.df, calculation_mode, fname, hover) IN
              [outcome |-> "returned", parsed |-> TRUE, df |-> f.df,
               figure |-> f.figure, style |-> "block"]
         ELSE [outcome |-> "returned", parsed |-> TRUE, df |-> p.df,
               figure |-> EmptyFigure, style |-> "none"]

\* One run of update_graph; a callback that raises leaves its outputs as
\* they were.
update_graph(triggered_id, calculation_mode, hover, cts, fname) ==
    \E r \in {UpdateGraphResult(triggered_id, calculation_mode, hover, cts, fname)} :
        /\ trig' = triggered_id
        /\ outcome' = r.outcome
        /\ parsed' = r.parsed
        /\ df' = r.df
        /\ figure' = IF r.outcome = "raised" THEN figure ELSE r.figure
        /\ style' = IF r.outcome = "raised" THEN style ELSE r.style

\* dcc.Upload delivers a file: update_button_state_and_message runs; contents
\* and filename are State of update_graph, which is not triggered.
Upload(file, fname) ==
    /\ contents' = file
    /\ filename' = fname
    /\ buttonDisabled' = FALSE
    /\ uploadMessage' = "uploaded successfully"
    /\ UNCHANGED <<input, result, mode, hoverData, figure, style, df, trig,
                   outcome, parsed>>

\* The user picks a calculation mode.
SelectMode(m) ==
    /\ m # mode
    /\ mode' = m
    /\ update_graph("calculation-mode", m, hoverData, contents, filename)
    /\ UNCHANGED <<input, result, contents, filename, hoverData, buttonDisabled,
                   uploadMessage>>

\* The user clicks Visualize (enabled once a file is uploaded).
ClickVisualize ==
    /\ ~buttonDisabled
    /\ update_graph("visualize-button", mode, hoverData, contents, filename)
    /\ UNCHANGED <<input, result, contents, filename, mode, hoverData,
                   buttonDisabled, uploadMessage>>

\* The pointer moves over a point of a trace of the visible chart.
Hover(name) ==
    /\ style = "block"
    /\ \E i \in 1..Len(figure.traces) : figure.traces[i].name = name
    /\ hoverData' = name
    /\ update_graph("race-plot", mode, name, contents, filename)
    /\ UNCHANGED <<input, result, contents, filename, mode, buttonDisabled,
                   uploadMessage>>

(***************************************************************************)
(* SpecParse: time_to_seconds on every bounded argument.                   *)
(***************************************************************************)
PartAlphabet == {"0", "1", "-", "a"}

RECURSIVE SeqsUpTo(_, _)
SeqsUpTo(S, n) ==
    IF n = 0 THEN {<<>>}
    ELSE LET shorter == SeqsUpTo(S, n - 1)
         IN  shorter \cup {Append(p, c) : p \in shorter, c \in S}

\* The strings of n colon-separated parts.
ParseInputs(n) ==
    {StrCell(Join(ps)) : ps \in [1..n -> SeqsUpTo(PartAlphabet, MaxPartLen)]}


InitApp ==
    /\ contents = NoFile
    /\ filename = <<>>
    /\ mode = "None"
    /\ hoverData = "None"
    /\ figure = EmptyFigure
    /\ style = "none"
    /\ buttonDisabled = TRUE
    /\ uploadMessage = "No file uploaded yet."
    /\ df = <<>>
    /\ trig = ""
    /\ outcome = "returned"
    /\ parsed = FALSE

InitParse ==
    /\ \/ input = MissingCell
       \/ \E n \in 1..MaxParts : input \in ParseInputs(n)
    /\ result = Pending
    /\ InitApp

Parse ==
    /\ result = Pending
    /\ result' = time_to_seconds(input)
    /\ UNCHANGED <<input, appVars>>

NextParse == Parse

SpecParse == InitParse /\ [][NextParse]_vars

(***************************************************************************)
(* Uploaded tables.                                                        *)
(***************************************************************************)
FirstNames == <<"Ann", "Ben", "Cy", "Dee", "Eli", "Flo">>
LastName == "Roe"

\* name = f"{athlete['Athlete First Name']} {athlete['Athlete Last Name']}"
FullName(first, last) == first \o " " \o last

\* The field "0:n".
Sec(n) == <<"0", ":", Digits[n + 1]>>

Row(i, position, cells) ==
    [name |-> FullName(FirstNames[i], LastName), position |-> position, cells |-> cells]

csvName == <<"r", ".", "c", "s", "v">>
txtName == <<"r", ".", "t", "x", "t">>

\* The state right after dcc.Upload delivered file under the name fname.
Uploaded(file, fname) ==
    /\ contents = file
    /\ filename = fname
    /\ mode = "None"
    /\ hoverData = "None"
    /\ figure = EmptyFigure
    /\ style = "none"
    /\ buttonDisabled = FALSE
    /\ uploadMessage = "uploaded successfully"
    /\ df = <<>>
    /\ trig = ""
    /\ outcome = "returned"
    /\ parsed = FALSE
    /\ input = MissingCell
    /\ result = Pending

(***************************************************************************)
(* SpecRow: a one-athlete table whose segment fields range over empty,     *)
(* 00:00:00, a negative field, a non-numeric field, a bare number and the  *)
(* fields 0:0 .. 0:MaxSec.                                                 *)
(***************************************************************************)
RowCells ==
    {<<>>, ZeroStamp, <<"0", ":", "-", "1">>, <<"a">>, <<"1">>}
        \cup {Sec(n) : n \in 0..MaxSec}

RowFile(c) == CsvFile(<<Row(1, IntVal(1), c \o <<Sec(1)>>)>>)

InitRow == \E c \in [1..Len(segments) -> RowCells] : Uploaded(RowFile(c), csvName)

NextView ==
    \/ \E m \in {"position", "time_gap"} : SelectMode(m)
    \/ ClickVisualize

SpecRow == InitRow /\ [][NextView]_vars

(***************************************************************************)
(* SpecView: tables of up to MaxAthletes athletes.                         *)
(***************************************************************************)
SwimCells == {<<>>, Sec(1), Sec(2)}
BikeCells == {<<>>, Sec(1), Sec(2)}

ViewCells ==
    {<<s, Sec(1), b, Sec(1), Sec(1), Sec(9)>> : s \in SwimCells, b \in BikeCells}

\* The Position column of an n-row table: the first row unplaced, the others
\* placed in reverse order of the file.
Position(i, n) == IF i = 1 THEN NaN ELSE IntVal(n + 1 - i)

ViewFile(cs) == CsvFile([i \in 1..Len(cs) |-> Row(i, Position(i, Len(cs)), cs[i])])

InitView ==
    \E n \in 1..MaxAthletes : \E cs \in [1..n -> ViewCells] :
        Uploaded(ViewFile(cs), csvName)

SpecView == InitView /\ [][NextView]_vars

(***************************************************************************)
(* SpecApp: a session of uploads, mode selections, clicks and hovers.      *)
(***************************************************************************)
Finisher(i, swim) == Row(i, IntVal(i), <<Sec(swim), Sec(1), Sec(2), Sec(1), Sec(3), Sec(9)>>)

\* Two finishers.
RaceFile == CsvFile(<<Finisher(1, 1), Finisher(2, 2)>>)
\* Three athletes, the third without a Bike time.
DnfFile ==
    CsvFile(<<Finisher(1, 1), Finisher(2, 2),
              Row(3, NaN, <<Sec(3), Sec(1), <<>>, Sec(1), Sec(3), <<>>>>)>>)
\* A Swim field that is no duration.
MalformedFile ==
    CsvFile(<<Finisher(1, 1),
              Row(2, IntVal(2), <<<<"a">>, Sec(1), Sec(2), Sec(1), Sec(3), Sec(9)>>)>>)
\* Bytes that pd.read_csv rejects.
UndecodableFile == [present |-> TRUE, decodable |-> FALSE, columns |-> FALSE, rows |-> <<>>]
\* A table without the time columns.
HeaderlessFile == [present |-> TRUE, decodable |-> TRUE, columns |-> FALSE, rows |-> <<>>]

AppFiles == {RaceFile, DnfFile, MalformedFile, UndecodableFile, HeaderlessFile}
AppNames == {csvName, txtName}

InitSession ==
    /\ input = MissingCell
    /\ result = Pending
    /\ InitApp

NextApp ==
    \/ \E f \in AppFiles, n \in AppNames : Upload(f, n)
    \/ \E m \in {"position", "time_gap"} : SelectMode(m)
    \/ ClickVisualize
    \/ \E i \in 1..Len(FirstNames) : Hover(FullName(FirstNames[i], LastName))

SpecApp == InitSession /\ [][NextApp]_vars

(***************************************************************************)
(* Properties.                                                             *)
(***************************************************************************)
Int1 == IntVal(1)
AllNumeric(parts) == \A i \in 1..Len(parts) : IntOk(parts[i])

\* C1: time_to_seconds maps a three-part string h:m:s to h*3600 + m*60 + s,
\* a two-part string m:s to m*60 + s, a one-part string to that integer, and
\* both 00:00:00 and an empty or missing value to NaN.
C1_ParsedAsSpecified ==
    result # Pending =>
        LET parts == Split(input.s) IN
        /\ (input.kind = "nan" \/ input.s = <<>> \/ input.s = ZeroStamp) => result = NaN
        /\ (input.kind = "str" /\ input.s # ZeroStamp /\ AllNumeric(parts)) =>
              /\ Len(parts) = 3 =>
                    result = IntVal(PyInt(parts[1]).v * 3600 + PyInt(parts[2]).v * 60
                                        + PyInt(parts[3]).v)
              /\ Len(parts) = 2 =>
                    result = IntVal(PyInt(parts[1]).v * 60 + PyInt(parts[2]).v)
              /\ Len(parts) = 1 => result = PyInt(parts[1])

\* C2: time_to_seconds raises, and returns no value, on every string with a
\* non-numeric part or with a number of parts other than 1, 2 or 3.
C2_MalformedRaises ==
    (result # Pending /\ input.kind = "str"
        /\ (Len(Split(input.s)) \notin {1, 2, 3} \/ ~AllNumeric(Split(input.s))))
    => IsRaised(result)

\* C3: in every row process_data returns, cum[Swim] = dur[Swim] and
\* cum[i] = cum[i-1] + dur[i] when both are present; an absent duration makes
\* the cumulative value of its segment and of every later segment absent.
C3_CumulativePropagation ==
    \A i \in 1..Len(df) :
        /\ df[i].cum[1] = df[i].dur[1]
        /\ \A j \in 2..Len(segments) :
              (~IsNaN(df[i].cum[j - 1]) /\ ~IsNaN(df[i].dur[j]))
              => df[i].cum[j] = IntVal(df[i].cum[j - 1].v + df[i].dur[j].v)
        /\ \A j \in 1..Len(segments) :
              IsNaN(df[i].dur[j]) => \A h \in j..Len(segments) : IsNaN(df[i].cum[h])

\* A row without a Bike time whose T2 and Run times are present.
C3_Witness ==
    /\ Len(df) = 1
    /\ df[1].dur = <<Int1, Int1, NaN, Int1, Int1>>
    /\ df[1].cum = <<Int1, IntVal(2), NaN, NaN, NaN>>

\* The largest rank among the rank columns of df.
MaxRankOf(d) ==
    CHOOSE m \in {d[i].rank[j].v : i \in 1..Len(d), j \in 1..Len(segments)} :
        \A i \in 1..Len(d), j \in 1..Len(segments) : d[i].rank[j].v <= m

TracesOf(name) ==
    {figure.traces[t] : t \in {t \in 1..Len(figure.traces) : figure.traces[t].name = name}}

\* C4: in rank mode an athlete with an absent cumulative value has a trace that
\* stops at the first absent value and ends in one padding point at the last
\* x with y = the maximum rank; in gap mode an athlete without a cumulative
\* Run value has no trace.
C4_TruncatedAndPadded ==
    style = "block" =>
        \A i \in 1..Len(df) :
            LET k == Reached(df[i].cum) IN
            k < Len(segments) =>
                IF mode = "position"
                THEN \E t \in TracesOf(df[i].name) :
                        /\ Len(t.y) = k + 2
                        /\ t.x = Append(SubSeq(x_values, 1, k + 1), x_values[k + 1])
                        /\ \A j \in 1..k : t.y[j + 1] = df[i].rank[j].v
                        /\ t.y[k + 2] = MaxRankOf(df)
                ELSE TracesOf(df[i].name) = {}

\* C5: in position mode every athlete's rank in a column is the dense minimum
\* rank of the cumulative time (one more than the number of distinct smaller
\* times), and an absent value ranks strictly worse than every present one.
C5_DenseRank ==
    \A i \in 1..Len(df) : df[i].rank # <<>> =>
        \A j \in 1..Len(segments) :
            LET col == Column(df, j)
                smaller == {h \in Present(col) : col[h].v < col[i].v}
            IN  IF IsNaN(col[i])
                THEN \A h \in Present(col) : df[i].rank[j].v > df[h].rank[j].v
                ELSE df[i].rank[j] = IntVal(1 + Cardinality({col[h].v : h \in smaller}))

\* C5 amended: the rank is the minimum (competition) rank, one more than the
\* number of athletes with a strictly smaller time, and an absent value ranks
\* strictly worse than every present one.
C5_MinRank ==
    \A i \in 1..Len(df) : df[i].rank # <<>> =>
        \A j \in 1..Len(segments) :
            LET col == Column(df, j)
                smaller == {h \in Present(col) : col[h].v < col[i].v}
            IN  IF IsNaN(col[i])
                THEN \A h \in Present(col) : df[i].rank[j].v > df[h].rank[j].v
                ELSE df[i].rank[j] = IntVal(1 + Cardinality(smaller))

\* Two athletes tied ahead of a third in one column, and an absent value.
C5_Witness ==
    /\ Len(df) = 3
    /\ \A i \in 1..3 : df[i].rank # <<>>
    /\ \E j \in 1..Len(segments) : \E a, b, c \in 1..3 :
          /\ a # b
          /\ IsInt(df[a].cum[j]) /\ df[a].cum[j] = df[b].cum[j]
          /\ IsInt(df[c].cum[j]) /\ df[c].cum[j].v > df[a].cum[j].v
          /\ df[c].rank[j] = IntVal(3)
    /\ \E j \in 1..Len(segments) : \E a, b \in 1..3 :
          IsNaN(df[a].cum[j]) /\ IsInt(df[b].cum[j])

\* C6: in time_gap mode every athlete's gap in a column is the cumulative time
\* minus the column's minimum present time; no gap is negative and whoever
\* holds the column's minimum has gap 0.
C6_GapToLeader ==
    \A i \in 1..Len(df) : df[i].gap # <<>> =>
        \A j \in 1..Len(segments) :
            LET col == Column(df, j)
                leaders == {l \in Present(col) : \A h \in Present(col) : col[l].v <= col[h].v}
            IN  /\ IsNaN(col[i]) => IsNaN(df[i].gap[j])
                /\ ~IsNaN(col[i]) =>
                      \E l \in leaders : df[i].gap[j] = IntVal(col[i].v - col[l].v)
                /\ ~IsNaN(df[i].gap[j]) => df[i].gap[j].v >= 0
                /\ i \in leaders => df[i].gap[j] = IntVal(0)

\* A gap chart where the Swim leader has no Run time and is left out, so
\* every plotted athlete is behind at Swim.
C6_Witness ==
    /\ style = "block" /\ mode = "time_gap"
    /\ Len(df) = 3
    /\ Len(figure.traces) = 2
    /\ \E i \in 1..3 : df[i].gap[1] = IntVal(0) /\ IsNaN(df[i].gap[Len(segments)])
    /\ \A t \in 1..2 : figure.traces[t].y[2] > 0

\* What the specification calls an upload error: an unsupported file type, a
\* decode or tabular-structure failure, or a malformed duration.
UploadError(file, fname) ==
    \/ ~Contains(<<"c", "s", "v">>, fname)
    \/ ~file.decodable
    \/ \E i \in 1..Len(file.rows), c \in 1..Len(time_columns) :
          IsRaised(time_to_seconds(ReadCsvCell(file.rows, i, c)))

\* C7: whenever update_graph processes an upload with one of the three errors,
\* the error is returned, not raised, and the chart area is hidden.
C7_ErrorsCaughtChartHidden ==
    [][(UNCHANGED <<contents, filename>> /\ parsed' /\ UploadError(contents, filename))
          => (outcome' = "returned" /\ style' = "none")]_vars

\* C8: in a row whose five durations are all present the cumulative values
\* never decrease along Swim, T1, Bike, T2, Run.
C8_CumulativeMonotone ==
    \A i \in 1..Len(df) :
        (\A j \in 1..Len(segments) : IsInt(df[i].dur[j]))
        => \A j \in 2..Len(segments) : df[i].cum[j - 1].v <= df[i].cum[j].v

\* The same figure up to the opacity of its traces.
SameButOpacity(f, g) ==
    /\ [f EXCEPT !.traces = <<>>] = [g EXCEPT !.traces = <<>>]
    /\ Len(f.traces) = Len(g.traces)
    /\ \A t \in 1..Len(f.traces) :
          [f.traces[t] EXCEPT !.opacity = ""] = [g.traces[t] EXCEPT !.opacity = ""]

\* C9: an update_graph triggered by a hover never calls process_data; it
\* leaves the chart as it is except for the opacity of the traces.
C9_HoverOnlyReemphasises ==
    [][(trig' = "race-plot" /\ UNCHANGED <<contents, filename>>)
          => (~parsed' /\ style' = style /\ SameButOpacity(figure, figure'))]_vars

\* C10: with a valid upload and the chart shown, a mode selection leaves the
\* chart visible, showing the figure of the newly selected mode.
C10_ModeChangeRerenders ==
    [][(style = "block" /\ mode' # mode /\ process_data(contents, filename).status = "ok")
          => /\ style' = "block"
             /\ figure' = create_figure(process_data(contents, filename).df, mode',
                                        filename, "None").figure]_vars

\* C10 amended: with a valid upload and the chart shown, a mode selection
\* hides the chart behind an empty figure; the next Visualize click shows the
\* figure of the selected mode.
C10_ModeChangeHidesChart ==
    [][/\ (style = "block" /\ mode' # mode
              /\ process_data(contents, filename).status = "ok")
          => (parsed' /\ style' = "none" /\ figure' = EmptyFigure)
       /\ (trig' = "visualize-button" /\ UNCHANGED <<contents, filename>>
              /\ mode # "None" /\ process_data(contents, filename).status = "ok")
          => /\ style' = "block"
             /\ figure' = create_figure(process_data(contents, filename).df, mode,
                                        filename, "None").figure]_vars

\* A mode selection handled after a chart had been shown and hovered: the
\* valid file was parsed and the chart is hidden.
C10_Witness ==
    /\ trig = "calculation-mode" /\ parsed /\ df # <<>>
    /\ hoverData # "None"
    /\ style = "none" /\ figure = EmptyFigure

====
